---- MODULE Spec2Model ----
(***************************************************************************)
(* Model of the two core components of flowsight:                          *)
(*   - LSPBacktester (backend/app/ml/backtesting.py): the position-flipping *)
(*     simulator, one step per joined row, with its trade list and equity  *)
(*     curve kept on the instance;                                         *)
(*   - MLService (backend/app/services/ml_service.py): model loading and   *)
(*     predict_lsp with its heuristic fallback.                            *)
(* Python floats are modelled as exact rationals <<numerator, denominator>> *)
(* in lowest terms with a positive denominator; rounding, infinities and   *)
(* NaN are outside the model.  The report of _calculate_metrics carries    *)
(* the keys that are rational functions of the run (total_return,          *)
(* win_rate, avg_profit_per_trade, total_trades, directional_accuracy,     *)
(* max_drawdown); annualized_return and sortino_ratio are not modelled.    *)
(* Beside them: the in-memory MessageQueue, the WebSocketManager and the   *)
(* DataIngestionPipeline, each under a specification of its own.           *)
(***************************************************************************)
EXTENDS Integers, Sequences, FiniteSets, TLC

VARIABLES
    \* LSPBacktester instance attributes
    trading_fee, slippage, trades, equity_curve,
    \* run_backtest frame
    pc, merged, idx, initial_capital, capital, position, entry_price,
    entry_timestamp,
    \* caller side: arguments of the latest call and the value returned
    args, result,
    \* history: position opens of the running call, snapshot at call entry
    opens, prev,
    \* MLService and its environment
    TENSORFLOW_AVAILABLE, model_file, model, model_loaded, features,
    inference, returned,
    \* the process: runs of _load_model so far, score of the latest stored row
    loads, stored,
    \* a second thread's run on another instance while it is switched out,
    \* and whether the running thread's run has been switched out midway
    parked, preempted,
    \* MessageQueueService in memory mode: the queues by topic, the number
    \* of messages published, the messages handed to callbacks so far
    memory_queue, published, delivered,
    \* WebSocketManager: its two attributes, the room each endpoint task
    \* serves its connection in, the broadcast_to_room call in progress
    active_connections, rooms, endpoint_room, broadcast,
    \* DataIngestionPipeline: the flag, the start() call, the three loops,
    \* the loops that have logged an error
    running, start_pc, loop_pc, logged

btVars == <<trading_fee, slippage, trades, equity_curve, pc, merged, idx,
            initial_capital, capital, position, entry_price, entry_timestamp,
            args, result, opens, prev>>
mlVars == <<TENSORFLOW_AVAILABLE, model_file, model, model_loaded, features,
            inference, returned, loads, stored>>
parVars == <<parked, preempted>>
mqVars == <<memory_queue, published, delivered>>
wsVars == <<active_connections, rooms, endpoint_room, broadcast>>
plVars == <<running, start_pc, loop_pc, logged>>
svcVars == <<mqVars, wsVars, plVars>>
vars == <<btVars, mlVars, parVars, svcVars>>

----------------------------------------------------------------------------
(* Exact rational arithmetic standing for float arithmetic.  Undefined is   *)
(* what a division by zero leaves (ZeroDivisionError between Python floats, *)
(* inf or nan between numpy floats) and whatever is computed from it.       *)

Abs(n) == IF n < 0 THEN -n ELSE n

RECURSIVE GCD(_, _)
GCD(a, b) == IF b = 0 THEN a ELSE GCD(b, a % b)

Norm(n, d) ==
    LET g == GCD(Abs(n), Abs(d))
        s == IF d < 0 THEN -1 ELSE 1
    IN  <<s * (n \div g), s * (d \div g)>>

R(n) == <<n, 1>>
Undefined == <<0, 0>>
Defined(a) == a[2] # 0
Frac(n, d) == Norm(n, d)

RAdd(a, b) ==
    IF ~Defined(a) \/ ~Defined(b) THEN Undefined
    ELSE LET g == GCD(a[2], b[2])
         IN  Norm(a[1] * (b[2] \div g) + b[1] * (a[2] \div g),
                  (a[2] \div g) * b[2])

RNeg(a) == <<-a[1], a[2]>>
RSub(a, b) == RAdd(a, RNeg(b))

RMul(a, b) ==
    IF ~Defined(a) \/ ~Defined(b) THEN Undefined
    ELSE LET g1 == GCD(Abs(a[1]), b[2])
             g2 == GCD(Abs(b[1]), a[2])
         IN  Norm((a[1] \div g1) * (b[1] \div g2),
                  (a[2] \div g2) * (b[2] \div g1))

RDiv(a, b) ==
    IF ~Defined(a) \/ ~Defined(b) \/ b[1] = 0 THEN Undefined
    ELSE RMul(a, Norm(b[2], b[1]))

\* no comparison with an undefined value holds
RLt(a, b) == Defined(a) /\ Defined(b) /\ a[1] * b[2] < b[1] * a[2]
RLe(a, b) == Defined(a) /\ Defined(b) /\ a[1] * b[2] <= b[1] * a[2]
RMin(a, b) == IF RLt(b, a) THEN b ELSE a
RMax(a, b) == IF RLt(a, b) THEN b ELSE a

RAbs(a) == <<Abs(a[1]), a[2]>>

RECURSIVE RSum(_)
RSum(s) == IF s = <<>> THEN R(0) ELSE RAdd(Head(s), RSum(Tail(s)))

----------------------------------------------------------------------------
(* Bounds and input sets of the backtester.                                *)

MaxRows == 2

Timestamps == 1..MaxRows
Scores == {-8, -7, 0, 7, 8}
Prices == {90, 100}
Capitals == {100000, -100000}
Half == Frac(1, 2)
\* <<trading_fee, slippage>> given to the constructor
Configs == {<<R(0), R(0)>>, <<Half, Half>>, <<RNeg(Half), R(0)>>,
            <<R(0), RNeg(Half)>>}

\* frames whose rows are at timestamps 1..n, in that order
Ascending(f) == \A i \in 1..Len(f) : f[i].timestamp = i
ScoreFrames ==
    {f \in UNION {[1..n -> [asset: {"BTC"}, timestamp: Timestamps,
                            lsp_score: Scores]] : n \in 0..MaxRows} :
        Ascending(f)}
\* price frames of the scored asset, or one row of another asset
PriceFrames ==
    {f \in UNION {[1..n -> [asset: {"BTC"}, timestamp: Timestamps,
                            price: Prices]] : n \in 0..MaxRows} :
        Ascending(f)}
    \cup {<<[asset |-> "ETH", timestamp |-> 1, price |-> p]>> : p \in Prices}

CallArgs ==
    {[lsp_scores |-> s, price_data |-> p, initial_capital |-> c] :
        s \in ScoreFrames, p \in PriceFrames, c \in Capitals}

\* arguments offered to a call on an instance that has already run: the
\* previous arguments again, or one of these
\* equity curves handed to _calculate_metrics directly: up to MaxCurve
\* entries, the first one (the initial capital) positive
MaxCurve == 4
EquityValues == {0, 90, 100, 120, 150}
EquityCurves ==
    {[i \in 1..Len(c) |-> R(c[i])] :
        c \in {f \in UNION {[1..n -> EquityValues] : n \in 1..MaxCurve} :
                  f[1] > 0}}

ReplayArgs ==
    {a \in CallArgs :
        /\ Len(a.lsp_scores) = 1 /\ a.lsp_scores[1].lsp_score = 8
        /\ Len(a.price_data) <= 1
        /\ \A i \in 1..Len(a.price_data) :
              a.price_data[i].price = 100 /\ a.price_data[i].asset = "BTC"}

\* frames whose rows come in any order, with distinct timestamps; the
\* price of a row is fixed by its timestamp
OrderTimestamps == {1, 2, 3}
OrderPrice(t) == IF t = 2 THEN 90 ELSE 100
Distinct(f) ==
    \A i, j \in 1..Len(f) : i # j => f[i].timestamp # f[j].timestamp
OrderScoreFrames ==
    {f \in UNION {[1..n -> [asset: {"BTC"}, timestamp: OrderTimestamps,
                            lsp_score: {-8, 8}]] : n \in 1..2} :
        Distinct(f)}
OrderPriceFrames ==
    {[i \in 1..Len(ts) |-> [asset |-> "BTC", timestamp |-> ts[i],
                            price |-> OrderPrice(ts[i])]] :
        ts \in {q \in UNION {[1..n -> OrderTimestamps] : n \in 1..3} :
                  \A i, j \in 1..Len(q) : i # j => q[i] # q[j]}}
OrderArgs ==
    {[lsp_scores |-> f, price_data |-> p, initial_capital |-> 100000] :
        f \in OrderScoreFrames, p \in OrderPriceFrames}
\* the rows present in both series
Matched(a) ==
    {[asset |-> l.asset, timestamp |-> l.timestamp,
      lsp_score |-> l.lsp_score, price |-> r.price] :
        <<l, r>> \in
            {x \in {a.lsp_scores[i] : i \in 1..Len(a.lsp_scores)}
                   \X {a.price_data[j] : j \in 1..Len(a.price_data)} :
                x[1].timestamp = x[2].timestamp /\ x[1].asset = x[2].asset}}

NoArgs == [none |-> TRUE]
NoResult == [none |-> TRUE]
NoSnapshot == [none |-> TRUE]
NoContext == [none |-> TRUE]

----------------------------------------------------------------------------
(* pd.merge(..., on=['timestamp', 'asset'], how='inner').sort_values(...)  *)

RECURSIVE JoinRows(_, _, _)
\* rows of the inner join, in the order of the left frame's rows
JoinRows(left, right, i) ==
    IF i > Len(left) THEN <<>>
    ELSE LET l == left[i]
             hits == [j \in 1..Len(right) |->
                        IF right[j].timestamp = l.timestamp
                           /\ right[j].asset = l.asset
                        THEN <<[asset |-> l.asset, timestamp |-> l.timestamp,
                                lsp_score |-> l.lsp_score,
                                price |-> right[j].price]>>
                        ELSE <<>>]
             Flat[j \in 0..Len(right)] ==
                 IF j = 0 THEN <<>> ELSE Flat[j - 1] \o hits[j]
         IN  Flat[Len(right)] \o JoinRows(left, right, i + 1)

InnerJoin(lsp_scores, price_data) == JoinRows(lsp_scores, price_data, 1)

RECURSIVE InsertSorted(_, _)
InsertSorted(row, s) ==
    IF s = <<>> THEN <<row>>
    ELSE IF row.timestamp < Head(s).timestamp THEN <<row>> \o s
    ELSE <<Head(s)>> \o InsertSorted(row, Tail(s))

\* the joined rows are left in the order of the join
SortByTimestamp_Unsorted(s) == s

RECURSIVE SortByTimestamp(_)
SortByTimestamp(s) ==
    IF s = <<>> THEN <<>>
    ELSE InsertSorted(s[Len(s)], SortByTimestamp(SubSeq(s, 1, Len(s) - 1)))

Merge(lsp_scores, price_data) ==
    SortByTimestamp(InnerJoin(lsp_scores, price_data))

----------------------------------------------------------------------------
(* LSPBacktester                                                           *)

\* a report of zeros in place of the empty dict
EmptyResult_Zeros ==
    [total_return |-> R(0), max_drawdown |-> R(0), win_rate |-> R(0),
     avg_profit_per_trade |-> R(0), total_trades |-> 0,
     directional_accuracy |-> R(0)]

\* `return {}` of an empty merge
EmptyResult == [k \in {} |-> R(0)]

\* self.equity_curve = [initial_capital]; self.trades = []
ResetEquityCurve(c) == <<c>>
\* the trade list is not recreated
ResetTrades_Keep == trades
ResetTrades == <<>>

\* the guard on the current position is dropped
EntersShort_Unguarded(lsp_score, pos) == lsp_score >= 7

\* if lsp_score >= 7.0 and position != -1
EntersShort(lsp_score, pos) == lsp_score >= 7 /\ pos # -1
\* the sign of the Long threshold is lost
EntersLong_SignSlip(lsp_score, pos) == lsp_score <= 7 /\ pos # 1
\* elif lsp_score <= -7.0 and position != 1
EntersLong(lsp_score, pos) == lsp_score <= -7 /\ pos # 1

ShortEntryPrice(price) == RMul(price, RAdd(R(1), slippage))
LongEntryPrice(price) == RMul(price, RSub(R(1), slippage))
\* no fee is taken when a position is opened
PayTradingFee_Skipped(c) == c
\* capital *= (1 - self.trading_fee)
PayTradingFee(c) == RMul(c, RSub(R(1), trading_fee))

\* a Short is valued like a Long
DirectionalPnl_LongOnly(c, pos, entry, price) ==
    RMul(c, RDiv(RSub(price, entry), entry))

\* the directional profit of both _close_position and the mark-to-market
DirectionalPnl(c, pos, entry, price) ==
    IF pos = 1 THEN RMul(c, RDiv(RSub(price, entry), entry))
    ELSE RMul(c, RDiv(RSub(entry, price), entry))

\* _close_position: the pnl it returns
ClosePnl(c, pos, entry, exit_price) ==
    RSub(DirectionalPnl(c, pos, entry, exit_price),
         RMul(c, RAdd(slippage, trading_fee)))

\* every closed position is recorded as a long
TradeRecord_AlwaysLong(c, pos, entry, exit_price, timestamp) ==
    [entry_price |-> entry, exit_price |-> exit_price, position |-> "long",
     pnl |-> ClosePnl(c, pos, entry, exit_price), timestamp |-> timestamp]

\* _close_position: the record it appends to self.trades
TradeRecord(c, pos, entry, exit_price, timestamp) ==
    [entry_price |-> entry, exit_price |-> exit_price,
     position |-> IF pos = 1 THEN "long" ELSE "short",
     pnl |-> ClosePnl(c, pos, entry, exit_price), timestamp |-> timestamp]

ClosePosition(c, pos, entry, exit_price, timestamp) ==
    Append(trades, TradeRecord(c, pos, entry, exit_price, timestamp))

\* current_equity of one row
MarkToMarket(c, pos, entry, price) ==
    IF pos # 0 THEN RAdd(c, DirectionalPnl(c, pos, entry, price)) ELSE c

\* the forced close is never taken
PositionOpen_Never(pos) == FALSE

\* if position != 0, after the loop
PositionOpen(pos) == pos # 0

\* the forced close leaves the curve as the loop left it
OverwriteLast_Keep(curve, c) == curve

\* the forced close appends its capital
OverwriteLast_Append(curve, c) == Append(curve, c)

\* self.equity_curve[-1] = capital
OverwriteLast(curve, c) == [curve EXCEPT ![Len(curve)] = c]

\* the maximum of the whole series at every position
RunningMax_Whole(curve) ==
    [i \in 1..Len(curve) |->
        LET Best[j \in 1..Len(curve)] ==
                IF j = 1 THEN curve[1] ELSE RMax(Best[j - 1], curve[j])
        IN  Best[Len(curve)]]

\* equity_series.expanding().max()
RunningMax(curve) ==
    LET Best[j \in 1..Len(curve)] ==
            IF j = 1 THEN curve[1] ELSE RMax(Best[j - 1], curve[j])
    IN  [i \in 1..Len(curve) |-> Best[i]]

\* (equity_series - running_max) / running_max
Drawdown(curve) ==
    LET running_max == RunningMax(curve)
    IN  [i \in 1..Len(curve) |->
            RDiv(RSub(curve[i], running_max[i]), running_max[i])]

\* abs(drawdown.min()); an undefined entry leaves the result undefined
MaxDrawdown(curve) ==
    LET drawdown == Drawdown(curve)
        Least[j \in 1..Len(curve)] ==
            IF j = 1 THEN drawdown[1] ELSE RMin(Least[j - 1], drawdown[j])
    IN  IF \E i \in 1..Len(curve) : ~Defined(drawdown[i]) THEN Undefined
        ELSE RAbs(Least[Len(curve)])

Profitable(ts) == {i \in 1..Len(ts) : RLt(R(0), ts[i].pnl)}

CalculateMetrics(initial, final, ts, curve) ==
    [total_return |-> RDiv(RSub(final, initial), initial),
     max_drawdown |-> MaxDrawdown(curve),
     win_rate |-> IF ts # <<>>
                  THEN Frac(Cardinality(Profitable(ts)), Len(ts)) ELSE R(0),
     avg_profit_per_trade |->
         IF ts # <<>>
         THEN RDiv(RSum([i \in 1..Len(ts) |-> ts[i].pnl]), R(Len(ts)))
         ELSE R(0),
     total_trades |-> Len(ts),
     directional_accuracy |-> R(0)]

\* what a caller can read once run_backtest has returned
Snapshot == [args |-> args, result |-> result, trades |-> trades,
             equity_curve |-> equity_curve]

ClearFrame ==
    /\ merged' = <<>>
    /\ idx' = 0
    /\ position' = 0
    /\ entry_price' = R(0)
    /\ entry_timestamp' = 0

\* run_backtest up to the loop: merge, the empty check, the initialisation
RunBacktest(a) ==
    /\ pc = "idle"
    /\ args' = a
    /\ prev' = IF args = NoArgs THEN NoSnapshot ELSE Snapshot
    /\ opens' = 0
    /\ LET m == Merge(a.lsp_scores, a.price_data)
       IN  IF m = <<>>
           THEN /\ result' = EmptyResult
                /\ pc' = "idle"
                /\ ClearFrame
                /\ initial_capital' = R(a.initial_capital)
                /\ capital' = R(0)
                /\ UNCHANGED <<trades, equity_curve>>
           ELSE /\ result' = NoResult
                /\ pc' = "loop"
                /\ merged' = m
                /\ idx' = 0
                /\ initial_capital' = R(a.initial_capital)
                /\ capital' = R(a.initial_capital)
                /\ position' = 0
                /\ entry_price' = R(0)
                /\ entry_timestamp' = 0
                /\ equity_curve' = ResetEquityCurve(R(a.initial_capital))
                /\ trades' = ResetTrades
    /\ UNCHANGED <<trading_fee, slippage, mlVars, svcVars>>

\* a first call takes rows in any order; the call after a run that had
\* rows to replay takes the same matched rows in another order or among
\* other unmatched rows
CallReordered ==
    \E a \in (IF args = NoArgs THEN OrderArgs
              ELSE IF prev = NoSnapshot /\ Matched(args) # {}
                   THEN {b \in OrderArgs : Matched(b) = Matched(args)}
              ELSE {}) :
        RunBacktest(a) /\ UNCHANGED parVars

\* _calculate_metrics called on an instance as it stands
CallCalculateMetrics ==
    /\ pc = "idle"
    /\ result' = CalculateMetrics(initial_capital, capital, trades,
                                  equity_curve)
    /\ UNCHANGED <<trading_fee, slippage, trades, equity_curve, pc, merged,
                   idx, initial_capital, capital, position, entry_price,
                   entry_timestamp, args, opens, prev, mlVars, svcVars,
                   parVars>>

\* a first call takes any arguments; a later one repeats or replays
Call ==
    \E a \in (IF args = NoArgs THEN CallArgs ELSE {args} \cup ReplayArgs) :
        RunBacktest(a) /\ UNCHANGED parVars

\* one iteration of `for idx, row in merged.iterrows()`
ProcessRow ==
    /\ pc = "loop"
    /\ idx < Len(merged)
    /\ LET row == merged[idx + 1]
           price == R(row.price)
           short == EntersShort(row.lsp_score, position)
           long == ~short /\ EntersLong(row.lsp_score, position)
           closes == (short /\ position = 1) \/ (long /\ position = -1)
           closed == IF closes
                     THEN RAdd(capital, ClosePnl(capital, position,
                                                 entry_price, price))
                     ELSE capital
           pos1 == IF short THEN -1 ELSE IF long THEN 1 ELSE position
           entry1 == IF short THEN ShortEntryPrice(price)
                     ELSE IF long THEN LongEntryPrice(price)
                     ELSE entry_price
           cap1 == IF short \/ long THEN PayTradingFee(closed) ELSE capital
       IN  /\ trades' = IF closes
                        THEN ClosePosition(capital, position, entry_price,
                                           price, row.timestamp)
                        ELSE trades
           /\ position' = pos1
           /\ entry_price' = entry1
           /\ entry_timestamp' = IF short \/ long THEN row.timestamp
                                 ELSE entry_timestamp
           /\ capital' = cap1
           /\ opens' = IF short \/ long THEN opens + 1 ELSE opens
           /\ equity_curve' =
                  Append(equity_curve, MarkToMarket(cap1, pos1, entry1, price))
    /\ idx' = idx + 1
    /\ UNCHANGED <<trading_fee, slippage, pc, merged, initial_capital, args,
                   result, prev, mlVars, svcVars, parVars>>

\* after the loop: the forced close, _calculate_metrics, return
Finish ==
    /\ pc = "loop"
    /\ idx = Len(merged)
    /\ LET last == merged[Len(merged)]
           open == PositionOpen(position)
           final == IF open
                    THEN RAdd(capital, ClosePnl(capital, position, entry_price,
                                                R(last.price)))
                    ELSE capital
           ts == IF open
                 THEN ClosePosition(capital, position, entry_price,
                                    R(last.price), last.timestamp)
                 ELSE trades
       IN  /\ trades' = ts
           /\ equity_curve' = IF open THEN OverwriteLast(equity_curve, final)
                              ELSE equity_curve
           /\ capital' = final
           /\ result' = CalculateMetrics(initial_capital, final, ts,
                                         equity_curve')
    /\ pc' = "idle"
    /\ ClearFrame
    /\ UNCHANGED <<trading_fee, slippage, initial_capital, args, opens, prev,
                   mlVars, svcVars, parVars>>

----------------------------------------------------------------------------
(* Two threads, each running run_backtest on an LSPBacktester of its own.  *)
(* The variables above are the thread that runs; parked is the other one.  *)

\* a thread's frame and the attributes of the instance it runs on
Context ==
    [trading_fee |-> trading_fee, slippage |-> slippage, trades |-> trades,
     equity_curve |-> equity_curve, pc |-> pc, merged |-> merged, idx |-> idx,
     initial_capital |-> initial_capital, capital |-> capital,
     position |-> position, entry_price |-> entry_price,
     entry_timestamp |-> entry_timestamp, args |-> args, result |-> result,
     opens |-> opens, prev |-> prev, preempted |-> preempted]

\* LSPBacktester(trading_fee, slippage) before any call
NewContext(cfg) ==
    [trading_fee |-> cfg[1], slippage |-> cfg[2], trades |-> <<>>,
     equity_curve |-> <<>>, pc |-> "idle", merged |-> <<>>, idx |-> 0,
     initial_capital |-> R(0), capital |-> R(0), position |-> 0,
     entry_price |-> R(0), entry_timestamp |-> 0, args |-> NoArgs,
     result |-> NoResult, opens |-> 0, prev |-> NoSnapshot,
     preempted |-> FALSE]

\* one list for every instance
OtherTrades_Shared == trades
\* self.trades and self.equity_curve of the other thread's instance
OtherTrades == parked.trades
OtherEquityCurve == parked.equity_curve

\* the scheduler takes the running thread off and puts the other one on
Switch ==
    /\ parked # NoContext
    /\ parked' = [Context EXCEPT !.preempted = preempted \/ pc = "loop"]
    /\ preempted' = parked.preempted
    /\ trading_fee' = parked.trading_fee
    /\ slippage' = parked.slippage
    /\ trades' = OtherTrades
    /\ equity_curve' = OtherEquityCurve
    /\ pc' = parked.pc
    /\ merged' = parked.merged
    /\ idx' = parked.idx
    /\ initial_capital' = parked.initial_capital
    /\ capital' = parked.capital
    /\ position' = parked.position
    /\ entry_price' = parked.entry_price
    /\ entry_timestamp' = parked.entry_timestamp
    /\ args' = parked.args
    /\ result' = parked.result
    /\ opens' = parked.opens
    /\ prev' = parked.prev
    /\ UNCHANGED <<mlVars, svcVars>>

\* the same, between two threads calling run_backtest on one instance:
\* the frames are swapped, the attributes of the instance stay
SwitchShared ==
    /\ parked # NoContext
    /\ parked' = [Context EXCEPT !.preempted = preempted \/ pc = "loop"]
    /\ preempted' = parked.preempted
    /\ pc' = parked.pc
    /\ merged' = parked.merged
    /\ idx' = parked.idx
    /\ initial_capital' = parked.initial_capital
    /\ capital' = parked.capital
    /\ position' = parked.position
    /\ entry_price' = parked.entry_price
    /\ entry_timestamp' = parked.entry_timestamp
    /\ args' = parked.args
    /\ result' = parked.result
    /\ opens' = parked.opens
    /\ prev' = parked.prev
    /\ UNCHANGED <<trading_fee, slippage, trades, equity_curve, mlVars,
                   svcVars>>

\* the runs of the two threads: two rows each, one capital
ThreadConfigs == {<<R(0), R(0)>>, <<Half, Half>>}
ThreadArgs ==
    {a \in CallArgs :
        /\ Len(a.lsp_scores) = 2 /\ Len(a.price_data) = 2
        /\ \A i \in 1..2 : a.lsp_scores[i].lsp_score \in {-8, 8}
        /\ a.price_data[1].price = 100 /\ a.price_data[2].price = 90
        /\ a.initial_capital = 100000}

\* a thread calls run_backtest, and calls it again with the same arguments
ThreadCall ==
    \E a \in (IF args = NoArgs THEN ThreadArgs ELSE {args}) :
        /\ RunBacktest(a)
        /\ preempted' = FALSE
        /\ UNCHANGED parked

\* a thread calls run_backtest once
ThreadCallOnce ==
    /\ args = NoArgs
    /\ \E a \in ThreadArgs :
          /\ RunBacktest(a)
          /\ preempted' = FALSE
          /\ UNCHANGED parked

----------------------------------------------------------------------------
(* MLService                                                               *)

FeatureNames == {"whale_net_flow_momentum", "sopr", "stablecoin_ratio",
                 "illiquid_supply_change", "dex_liquidity_depth",
                 "price_volatility"}

\* values a caller may give each feature (besides leaving it out)
FeatureValues(k) ==
    CASE k = "whale_net_flow_momentum" -> <<R(5)>>
      [] k = "sopr" -> <<Frac(1, 2), R(2)>>
      [] k = "stablecoin_ratio" -> <<R(1)>>
      [] k = "illiquid_supply_change" -> <<R(1)>>
      [] k = "dex_liquidity_depth" -> <<R(20000000)>>
      [] k = "price_volatility" -> <<Frac(1, 5)>>

\* a choice of 0 leaves the key out of the mapping
FeatureChoices ==
    {c \in [FeatureNames -> 0..2] :
        \A k \in FeatureNames : c[k] <= Len(FeatureValues(k))}
FeatureMap(c) ==
    [k \in {n \in FeatureNames : c[n] # 0} |-> FeatureValues(k)[c[k]]]
FeatureMaps == {FeatureMap(c) : c \in FeatureChoices}

\* mappings handed to the heuristic directly: SOPR on and around its tier
\* boundaries, and a key that is not one of the six
OtherKey == "funding_rate"
HeuristicValues(k) ==
    CASE k = "sopr" -> <<Frac(1, 2), Frac(9, 10), R(1), Frac(11, 10), R(2)>>
      [] k = OtherKey -> <<R(7)>>
      [] OTHER -> FeatureValues(k)
HeuristicKeys == FeatureNames \cup {OtherKey}
HeuristicChoices ==
    {[k \in HeuristicKeys |-> IF k = "sopr" THEN n ELSE c[k]] :
        c \in [HeuristicKeys \ {"sopr"} -> 0..1],
        n \in 0..Len(HeuristicValues("sopr"))}
HeuristicInputs ==
    {[k \in {n \in HeuristicKeys : c[n] # 0} |-> HeuristicValues(k)[c[k]]] :
        c \in HeuristicChoices}

\* what self.model.predict(feature_array, verbose=0)[0][0] can do
Raises == <<0, -1>>
ModelOutputs == {R(-15), Frac(3, 4), R(15)}
ModelBehaviours == ModelOutputs \cup {Raises}

\* a missing key reads as zero whatever its baseline
Get_ZeroDefault(f, k, default) == IF k \in DOMAIN f THEN f[k] ELSE R(0)
\* features.get(key, default)
Get(f, k, default) == IF k \in DOMAIN f THEN f[k] ELSE default

\* max(-10.0, min(10.0, score))
Clamp(score) == RMax(R(-10), RMin(R(10), score))
\* the prediction is returned unclipped
Clip_Missing(prediction) == prediction
\* np.clip(prediction, -10.0, 10.0)
Clip(prediction) == RMax(R(-10), RMin(prediction, R(10)))

\* the tier boundaries taken inclusively
SoprTerm_Inclusive(sopr) ==
    IF RLe(Frac(11, 10), sopr) THEN RMul(RSub(sopr, R(1)), R(3))
    ELSE IF RLe(sopr, Frac(9, 10))
         THEN RNeg(RMul(RSub(R(1), sopr), R(2)))
    ELSE RMul(RSub(sopr, R(1)), Frac(3, 2))
\* the SOPR tiers of _mock_predict
SoprTerm(sopr) ==
    IF RLt(Frac(11, 10), sopr) THEN RMul(RSub(sopr, R(1)), R(3))
    ELSE IF RLt(sopr, Frac(9, 10))
         THEN RNeg(RMul(RSub(R(1), sopr), R(2)))
    ELSE RMul(RSub(sopr, R(1)), Frac(3, 2))

\* _mock_predict
MockPredict(f) ==
    LET whale_net_flow_momentum == Get(f, "whale_net_flow_momentum", R(0))
        sopr == Get(f, "sopr", R(1))
        stablecoin_ratio == Get(f, "stablecoin_ratio", Frac(1, 2))
        illiquid_supply_change == Get(f, "illiquid_supply_change", R(0))
        dex_liquidity_depth == Get(f, "dex_liquidity_depth", R(1000000))
        price_volatility == Get(f, "price_volatility", Frac(1, 50))
        s1 == RSub(R(0), RMul(whale_net_flow_momentum, Frac(5, 2)))
        s2 == RAdd(s1, SoprTerm(sopr))
        s3 == RSub(s2, RMul(RSub(stablecoin_ratio, Frac(1, 2)), Frac(5, 2)))
        s4 == RSub(s3, RMul(illiquid_supply_change, Frac(3, 2)))
        normalized_depth == RMin(RDiv(dex_liquidity_depth, R(10000000)), R(1))
        s5 == RAdd(s4, RMul(RSub(R(1), normalized_depth), Frac(5, 2)))
        s6 == RAdd(s5, RMul(price_volatility, R(50)))
    IN  Clamp(s6)

\* _load_model, from the import outcome and the state of the model file
LoadModel(tf, file) ==
    IF ~tf THEN [model |-> "None", model_loaded |-> TRUE]
    ELSE IF file = "valid" THEN [model |-> "keras", model_loaded |-> TRUE]
    ELSE [model |-> "None", model_loaded |-> FALSE]

\* if not self.model_loaded or self.model is None
UsesHeuristic == ~model_loaded \/ model = "None"

\* the handler lets the exception escape
OnInferenceError_Propagates(f) ==
    [raised |-> TRUE, value |-> R(0), path |-> "fallback"]

\* except Exception as e: ... return self._mock_predict(features)
OnInferenceError(f) ==
    [raised |-> FALSE, value |-> MockPredict(f), path |-> "fallback"]

\* predict_lsp, given how the model call behaves should it be made
PredictLspOutcome(f, behaviour) ==
    IF UsesHeuristic
    THEN [raised |-> FALSE, value |-> MockPredict(f), path |-> "heuristic"]
    ELSE IF behaviour = Raises THEN OnInferenceError(f)
    ELSE [raised |-> FALSE, value |-> Clip(behaviour), path |-> "model"]

\* the handle is loaded again from the model file at every call
HandleAfterPredict_Reloads == LoadModel(TENSORFLOW_AVAILABLE, model_file)
\* predict_lsp assigns neither self.model nor self.model_loaded
HandleAfterPredict == [model |-> model, model_loaded |-> model_loaded]

\* one call of predict_lsp(f) on the service
PredictLspCall(f, behaviour) ==
    /\ features' = f
    /\ inference' = behaviour
    /\ returned' = PredictLspOutcome(f, behaviour)
    /\ model' = HandleAfterPredict.model
    /\ model_loaded' = HandleAfterPredict.model_loaded

PredictLsp ==
    \E f \in FeatureMaps :
    \E behaviour \in (IF UsesHeuristic THEN {Raises} ELSE ModelBehaviours) :
        /\ PredictLspCall(f, behaviour)
        /\ UNCHANGED <<TENSORFLOW_AVAILABLE, model_file, loads, stored,
                       btVars, parVars, svcVars>>

\* the training script writes app/ml/models/lsp_model.h5 while the service
\* is up
SaveModel ==
    /\ model_file' = "valid"
    /\ UNCHANGED <<TENSORFLOW_AVAILABLE, model, model_loaded, features,
                   inference, returned, loads, stored, btVars, parVars,
                   svcVars>>

\* _mock_predict called on the mapping held in features
CallMockPredict ==
    /\ returned' = [raised |-> FALSE, value |-> MockPredict(features),
                    path |-> "heuristic"]
    /\ UNCHANGED <<TENSORFLOW_AVAILABLE, model_file, model, model_loaded,
                   features, inference, loads, stored, btVars, parVars,
                   svcVars>>

----------------------------------------------------------------------------
(* LSPService and the /current endpoint                                    *)

\* most loads a process is followed for
MaxLoads == 3

\* no row stored yet
NoScore == <<>>

\* MLService.__init__ run once more: self._load_model()
LoadsAfterConstruction == loads + 1

\* get_current_lsp: builds LSPService(db), hence an MLService of its own,
\* reads the latest row and drops the service when the request returns
GetCurrentLsp ==
    /\ loads < MaxLoads
    /\ loads' = LoadsAfterConstruction
    /\ UNCHANGED <<TENSORFLOW_AVAILABLE, model_file, model, model_loaded,
                   features, inference, returned, stored, btVars,
                   parVars, svcVars>>

\* calculate_and_store_score on the service held by the top-level handle
CalculateAndStoreScore ==
    \E f \in FeatureMaps :
    \E behaviour \in (IF UsesHeuristic THEN {Raises} ELSE ModelBehaviours) :
        /\ PredictLspCall(f, behaviour)
        /\ stored' = IF returned'.raised THEN stored ELSE returned'.value
        /\ UNCHANGED <<TENSORFLOW_AVAILABLE, model_file, loads, btVars,
                       parVars, svcVars>>

----------------------------------------------------------------------------
(* MessageQueueService, queue_type MEMORY                                  *)

\* most messages published, most callback invocations followed
MaxMessages == 3
MaxDeliveries == 4

Topics == {"transactions", "prices"}
\* a callback is named by the id of the message it raises on; message ids
\* start at 1, so callback 0 returns on every message
Callbacks == 0..MaxMessages

\* self._memory_queue after publish(topic, message) has appended
Published(topic, message) ==
    IF topic \notin DOMAIN memory_queue
    THEN memory_queue @@ (topic :> <<message>>)
    ELSE [memory_queue EXCEPT ![topic] = Append(@, message)]

Publish ==
    /\ published < MaxMessages
    /\ \E topic \in Topics :
          memory_queue' =
              Published(topic, [id |-> published + 1, topic |-> topic])
    /\ published' = published + 1
    /\ UNCHANGED <<delivered, wsVars, plVars, btVars, mlVars, parVars>>

\* `for message in self._memory_queue[topic]: callback(message)`: the
\* messages the callback is called with, the last one being the one it
\* raises on, if any
RaisesAt(q, callback) == {i \in 1..Len(q) : q[i].id = callback}
Invoked(q, callback) ==
    IF RaisesAt(q, callback) = {} THEN q
    ELSE SubSeq(q, 1, CHOOSE i \in RaisesAt(q, callback) :
                         \A j \in RaisesAt(q, callback) : i <= j)

\* self._memory_queue[topic] = [], reached when the loop has ended
Cleared(topic, q, callback) ==
    IF RaisesAt(q, callback) = {} THEN [memory_queue EXCEPT ![topic] = <<>>]
    ELSE memory_queue

Consume ==
    \E topic \in Topics, callback \in Callbacks :
        IF topic \in DOMAIN memory_queue
        THEN LET q == memory_queue[topic]
             IN  /\ Len(delivered) + Len(Invoked(q, callback))
                        <= MaxDeliveries
                 /\ delivered' = delivered \o Invoked(q, callback)
                 /\ memory_queue' = Cleared(topic, q, callback)
                 /\ UNCHANGED <<published, wsVars, plVars, btVars, mlVars,
                                parVars>>
        ELSE UNCHANGED vars

----------------------------------------------------------------------------
(* WebSocketManager and the websocket endpoint.  A coroutine runs without  *)
(* interruption from one await to the next, so broadcast_to_room is one    *)
(* step from each send to the following one.                               *)

Connections == {"w1", "w2"}
\* the room a caller names: two of the rooms of self.rooms and the default
RoomArgs == {"lsp_updates", "whale_alerts", "general"}

NoBroadcast ==
    [pc |-> "idle", room |-> "general", used |-> 0, visited |-> {},
     current |-> "none", disconnected |-> {}, outcome |-> "none"]

\* self.rooms after connect(websocket, room)
Joined(websocket, room) ==
    IF room \in DOMAIN rooms
    THEN [rooms EXCEPT ![room] = @ \cup {websocket}] ELSE rooms
\* self.rooms after disconnect(websocket, room)
Left(websocket, room) ==
    IF room \in DOMAIN rooms
    THEN [rooms EXCEPT ![room] = @ \ {websocket}] ELSE rooms

\* websocket_endpoint up to its receive loop: manager.connect
EndpointConnect ==
    \E websocket \in Connections \ DOMAIN endpoint_room, room \in RoomArgs :
        /\ active_connections' = active_connections \cup {websocket}
        /\ rooms' = Joined(websocket, room)
        /\ endpoint_room' = endpoint_room @@ (websocket :> room)
        /\ UNCHANGED <<broadcast, mqVars, plVars, btVars, mlVars, parVars>>

\* websocket_endpoint on WebSocketDisconnect: manager.disconnect
EndpointDisconnect ==
    \E websocket \in DOMAIN endpoint_room :
        /\ active_connections' = active_connections \ {websocket}
        /\ rooms' = Left(websocket, endpoint_room[websocket])
        /\ endpoint_room' =
               [w \in DOMAIN endpoint_room \ {websocket} |-> endpoint_room[w]]
        /\ UNCHANGED <<broadcast, mqVars, plVars, btVars, mlVars, parVars>>

\* send_personal_message: send_json returns, or raises and the handler
\* calls self.disconnect(websocket)
SendPersonalMessage ==
    \E websocket \in active_connections, sent \in BOOLEAN :
        /\ active_connections' =
               IF sent THEN active_connections
               ELSE active_connections \ {websocket}
        /\ rooms' = IF sent THEN rooms ELSE Left(websocket, "general")
        /\ UNCHANGED <<endpoint_room, broadcast, mqVars, plVars, btVars,
                       mlVars, parVars>>

\* broadcast_to_room from the top of its for loop to the next await, or to
\* its end: the set iterator raises if the set has another size than when
\* the loop began, else hands out a member not yet visited, else the loop
\* ends and the failed connections are disconnected
BroadcastAdvance(room, used, visited, disconnected) ==
    IF Cardinality(rooms[room]) # used
    THEN /\ broadcast' = [NoBroadcast EXCEPT !.room = room,
                                             !.outcome = "raised"]
         /\ UNCHANGED <<active_connections, rooms>>
    ELSE IF rooms[room] \ visited = {}
    THEN /\ broadcast' = [NoBroadcast EXCEPT !.room = room,
                                             !.disconnected = disconnected,
                                             !.outcome = "returned"]
         /\ active_connections' = active_connections \ disconnected
         /\ rooms' = [rooms EXCEPT ![room] = @ \ disconnected]
    ELSE /\ \E connection \in rooms[room] \ visited :
              broadcast' = [pc |-> "send", room |-> room, used |-> used,
                            visited |-> visited \cup {connection},
                            current |-> connection,
                            disconnected |-> disconnected,
                            outcome |-> "none"]
         /\ UNCHANGED <<active_connections, rooms>>

\* broadcast_to_room is called
BroadcastToRoom ==
    /\ broadcast.pc = "idle"
    /\ \E room \in RoomArgs :
          IF room \notin DOMAIN rooms
          THEN /\ broadcast' = [NoBroadcast EXCEPT !.room = room,
                                                   !.outcome = "returned"]
               /\ UNCHANGED <<active_connections, rooms>>
          ELSE BroadcastAdvance(room, Cardinality(rooms[room]), {}, {})
    /\ UNCHANGED <<endpoint_room, mqVars, plVars, btVars, mlVars, parVars>>

\* `await connection.send_json(message)` returns or raises, and the loop
\* goes on
BroadcastResume ==
    /\ broadcast.pc = "send"
    /\ \E sent \in BOOLEAN :
          BroadcastAdvance(broadcast.room, broadcast.used, broadcast.visited,
                           IF sent THEN broadcast.disconnected
                           ELSE broadcast.disconnected
                                   \cup {broadcast.current})
    /\ UNCHANGED <<endpoint_room, mqVars, plVars, btVars, mlVars, parVars>>

(***************************************************************************)
(* DataIngestionPipeline: start() gathers three ingestion loops, stop()    *)
(* clears the flag they test.  A loop runs uninterrupted between two       *)
(* awaits: "created" is a task that gather has scheduled and that has not  *)
(* run yet, "cycle" awaits a database call of the try body, "sleep" awaits *)
(* the sleep that ends the try body, "handler" awaits the sleep of the     *)
(* except branch, "done" has left the while loop.  A pipeline is started   *)
(* again only after the earlier start() has returned.                      *)
(***************************************************************************)

\* _ingest_transactions, _ingest_exchange_flows, _ingest_price_data
Loops == {"transactions", "exchange_flows", "prices"}

\* while True:
WhileRunning_Always == TRUE

\* while self.running:
WhileRunning == running

\* where a loop is after it has tested its condition
LoopCheck == IF WhileRunning THEN "cycle" ELSE "done"

\* self.running = True; await asyncio.gather(*tasks)
Start ==
    /\ start_pc \in {"new", "returned"}
    /\ running' = TRUE
    /\ start_pc' = "gathering"
    /\ loop_pc' = [l \in Loops |-> "created"]
    /\ UNCHANGED <<logged, mqVars, wsVars, btVars, mlVars, parVars>>

\* self.running = False
Stop ==
    /\ running' = FALSE
    /\ UNCHANGED <<start_pc, loop_pc, logged, mqVars, wsVars, btVars,
                   mlVars, parVars>>

\* a loop's task runs for the first time, up to its first await
LoopBegins(l) ==
    /\ loop_pc[l] = "created"
    /\ loop_pc' = [loop_pc EXCEPT ![l] = LoopCheck]
    /\ UNCHANGED <<running, start_pc, logged, mqVars, wsVars, btVars,
                   mlVars, parVars>>

\* the database calls of the try body complete: await asyncio.sleep(...)
CycleCompletes(l) ==
    /\ loop_pc[l] = "cycle"
    /\ loop_pc' = [loop_pc EXCEPT ![l] = "sleep"]
    /\ UNCHANGED <<running, start_pc, logged, mqVars, wsVars, btVars,
                   mlVars, parVars>>

\* a database call of the try body raises: except Exception logs the
\* error and awaits a sleep
CycleRaises(l) ==
    /\ loop_pc[l] = "cycle"
    /\ loop_pc' = [loop_pc EXCEPT ![l] = "handler"]
    /\ logged' = logged \cup {l}
    /\ UNCHANGED <<running, start_pc, mqVars, wsVars, btVars, mlVars,
                   parVars>>

\* the sleep of the try body or of the except branch completes and the
\* loop tests its condition again
SleepCompletes(l) ==
    /\ loop_pc[l] \in {"sleep", "handler"}
    /\ loop_pc' = [loop_pc EXCEPT ![l] = LoopCheck]
    /\ UNCHANGED <<running, start_pc, logged, mqVars, wsVars, btVars,
                   mlVars, parVars>>

\* one step of a loop's task
IngestStep(l) ==
    \/ LoopBegins(l) \/ CycleCompletes(l) \/ CycleRaises(l)
    \/ SleepCompletes(l)

\* asyncio.gather returns once the three loops have returned
StartReturns ==
    /\ start_pc = "gathering"
    /\ \A l \in Loops : loop_pc[l] = "done"
    /\ start_pc' = "returned"
    /\ UNCHANGED <<running, loop_pc, logged, mqVars, wsVars, btVars,
                   mlVars, parVars>>

----------------------------------------------------------------------------
(* Specifications                                                          *)

\* the services below, built and not yet used
InitServices ==
    /\ memory_queue = <<>> /\ published = 0 /\ delivered = <<>>
    /\ active_connections = {}
    /\ rooms = [r \in {"lsp_updates", "whale_alerts", "transactions"} |-> {}]
    /\ endpoint_room = <<>>
    /\ broadcast = NoBroadcast
    /\ running = FALSE /\ start_pc = "new"
    /\ loop_pc = [l \in Loops |-> "none"] /\ logged = {}

NotCalled == [raised |-> FALSE, value |-> R(0), path |-> "none"]

InitBacktester ==
    /\ \E cfg \in Configs \cup {<<R(0), R(1)>>} :
          trading_fee = cfg[1] /\ slippage = cfg[2]
    /\ trades = <<>>
    /\ equity_curve = <<>>
    /\ pc = "idle"
    /\ merged = <<>>
    /\ idx = 0
    /\ initial_capital = R(0)
    /\ capital = R(0)
    /\ position = 0
    /\ entry_price = R(0)
    /\ entry_timestamp = 0
    /\ args = NoArgs
    /\ result = NoResult
    /\ opens = 0
    /\ prev = NoSnapshot

InitOneThread == parked = NoContext /\ preempted = FALSE

InitMLService(tfs, files) ==
    /\ TENSORFLOW_AVAILABLE \in tfs
    /\ model_file \in files
    /\ model = LoadModel(TENSORFLOW_AVAILABLE, model_file).model
    /\ model_loaded = LoadModel(TENSORFLOW_AVAILABLE, model_file).model_loaded
    /\ features = FeatureMap([k \in FeatureNames |-> 0])
    /\ inference = Raises
    /\ returned = NotCalled
    /\ loads = 1
    /\ stored = NoScore

\* the backtester, beside a service that is never called
Init ==
    /\ InitBacktester /\ <<trading_fee, slippage>> \in Configs
    /\ InitMLService({FALSE}, {"missing"})
    /\ InitOneThread
    /\ InitServices
Next == Call \/ ProcessRow \/ Finish
Spec == Init /\ [][Next]_vars

\* the backtester built with full slippage and no fee
InitFullSlippage ==
    /\ InitBacktester /\ trading_fee = R(0) /\ slippage = R(1)
    /\ InitMLService({FALSE}, {"missing"})
    /\ InitOneThread
    /\ InitServices
SpecFullSlippage == InitFullSlippage /\ [][Next]_vars

\* two threads on two instances
InitThreads ==
    /\ InitBacktester /\ <<trading_fee, slippage>> \in ThreadConfigs
    /\ InitMLService({FALSE}, {"missing"})
    /\ parked \in {NewContext(cfg) : cfg \in ThreadConfigs}
    /\ preempted = FALSE
    /\ InitServices
NextThreads == ThreadCall \/ ProcessRow \/ Finish \/ Switch
SpecThreads == InitThreads /\ [][NextThreads]_vars

\* the backtester given the same rows in different orders
InitOrder ==
    /\ InitBacktester /\ <<trading_fee, slippage>> \in ThreadConfigs
    /\ InitMLService({FALSE}, {"missing"})
    /\ InitOneThread
    /\ InitServices
NextOrder == CallReordered \/ ProcessRow \/ Finish
SpecOrder == InitOrder /\ [][NextOrder]_vars

\* _calculate_metrics on an instance holding a given equity curve
InitMetrics ==
    /\ trading_fee = R(0) /\ slippage = R(0)
    /\ trades = <<>>
    /\ equity_curve \in EquityCurves
    /\ pc = "idle"
    /\ merged = <<>>
    /\ idx = 0
    /\ initial_capital = equity_curve[1]
    /\ capital = equity_curve[Len(equity_curve)]
    /\ position = 0
    /\ entry_price = R(0)
    /\ entry_timestamp = 0
    /\ args = NoArgs
    /\ result = NoResult
    /\ opens = 0
    /\ prev = NoSnapshot
    /\ InitMLService({FALSE}, {"missing"})
    /\ InitOneThread
    /\ InitServices
NextMetrics == CallCalculateMetrics
SpecMetrics == InitMetrics /\ [][NextMetrics]_vars

\* two threads on one instance
InitShared ==
    /\ InitBacktester /\ <<trading_fee, slippage>> \in ThreadConfigs
    /\ InitMLService({FALSE}, {"missing"})
    /\ parked = NewContext(<<trading_fee, slippage>>)
    /\ preempted = FALSE
    /\ InitServices
NextShared == ThreadCallOnce \/ ProcessRow \/ Finish \/ SwitchShared
SpecShared == InitShared /\ [][NextShared]_vars

\* the services, beside a backtester and a scorer that are never called
InitIdle ==
    /\ InitBacktester /\ trading_fee = R(0) /\ slippage = R(0)
    /\ InitMLService({FALSE}, {"missing"})
    /\ InitOneThread
    /\ InitServices

\* the in-memory message queue
NextQueue == Publish \/ Consume
SpecQueue == InitIdle /\ [][NextQueue]_vars

\* the websocket manager serving endpoints, messages and broadcasts
NextWebSocket ==
    \/ EndpointConnect \/ EndpointDisconnect \/ SendPersonalMessage
    \/ BroadcastToRoom \/ BroadcastResume
SpecWebSocket == InitIdle /\ [][NextWebSocket]_vars

\* the ingestion pipeline started and stopped by its owner; every sleep
\* and database call of a loop completes, and gather returns when it can
NextPipeline ==
    \/ Start \/ Stop \/ StartReturns
    \/ \E l \in Loops : IngestStep(l)
FairPipeline ==
    /\ \A l \in Loops : WF_vars(IngestStep(l))
    /\ WF_vars(StartReturns)
SpecPipeline == InitIdle /\ [][NextPipeline]_vars /\ FairPipeline

\* the service, beside a backtester that never runs
InitML ==
    /\ InitBacktester /\ trading_fee = R(0) /\ slippage = R(0)
    /\ InitMLService(BOOLEAN, {"missing", "corrupt", "valid"})
    /\ InitOneThread
    /\ InitServices
NextML == PredictLsp
SpecML == InitML /\ [][NextML]_vars

\* the service while the model file is written
NextModelFile == PredictLsp \/ SaveModel
SpecModelFile == InitML /\ [][NextModelFile]_vars

\* a process serving /current requests beside a service that scores
NextProcess == GetCurrentLsp \/ CalculateAndStoreScore
SpecProcess == InitML /\ [][NextProcess]_vars

\* the heuristic applied to one mapping
InitHeuristic ==
    /\ InitBacktester /\ trading_fee = R(0) /\ slippage = R(0)
    /\ TENSORFLOW_AVAILABLE = FALSE
    /\ model_file = "missing"
    /\ model = LoadModel(FALSE, "missing").model
    /\ model_loaded = LoadModel(FALSE, "missing").model_loaded
    /\ features \in HeuristicInputs
    /\ inference = Raises
    /\ returned = NotCalled
    /\ loads = 1
    /\ stored = NoScore
    /\ InitOneThread
    /\ InitServices
NextHeuristic == CallMockPredict
SpecHeuristic == InitHeuristic /\ [][NextHeuristic]_vars

----------------------------------------------------------------------------
(* Properties                                                              *)

Returned == pc = "idle" /\ args # NoArgs
ReturnedReport == Returned /\ "total_trades" \in DOMAIN result
JoinOf(a) == Merge(a.lsp_scores, a.price_data)
Last(s) == s[Len(s)]

\* C1: for every processed row, the position becomes Short exactly when
\* score >= 7 and it was not Short, becomes Long exactly when score <= -7 and
\* it was not Long, and in every other case position, entry price, capital
\* and the trade list are unchanged.
C1_RowTransitions ==
    [][(pc = "loop" /\ idx' = idx + 1) =>
        LET score == merged[idx + 1].lsp_score
            toShort == score >= 7 /\ position # -1
            toLong == score <= -7 /\ position # 1
        IN  /\ (position # -1 /\ position' = -1) <=> toShort
            /\ (position # 1 /\ position' = 1) <=> toLong
            /\ (~toShort /\ ~toLong) =>
                  /\ position' = position
                  /\ entry_price' = entry_price
                  /\ entry_timestamp' = entry_timestamp
                  /\ capital' = capital
                  /\ trades' = trades
                  /\ opens' = opens]_vars

\* a second Short signal has been processed while Short, at a non-zero fee
C1_Witness ==
    /\ pc = "loop" /\ idx = 2
    /\ merged[1].lsp_score >= 7 /\ merged[2].lsp_score >= 7
    /\ merged[1].price # merged[2].price
    /\ trading_fee # R(0)
    /\ position = -1 /\ opens = 1 /\ trades = <<>>

\* C2: every position opened in a run is closed exactly once and each close
\* appends one Trade: during the loop the trades plus the open position
\* account for the opens, and a returned report has total_trades equal to
\* the opens with nothing left open.
C2_OpensClosedOnce ==
    /\ pc = "loop" =>
          Len(trades) + (IF position # 0 THEN 1 ELSE 0) = opens
    /\ ReturnedReport =>
          result.total_trades = opens /\ Len(trades) = opens

\* a run that flipped once and was force-closed has returned
C2_Witness ==
    ReturnedReport /\ opens = 2 /\ result.total_trades = 2
    /\ trades[1].position # trades[2].position

\* C3: the score predict_lsp returns lies in [-10, 10] on the model path,
\* the heuristic path and the fallback path.
C3_ScoreInRange ==
    returned.path # "none" =>
        /\ ~returned.raised
        /\ RLe(R(-10), returned.value) /\ RLe(returned.value, R(10))

\* the model answered 15 and the call returned 10
C3_Witness ==
    returned.path = "model" /\ inference = R(15) /\ returned.value = R(10)

\* C4: predict_lsp never raises, and whenever no model is usable or the
\* model call raises it returns the heuristic's value for the same mapping.
C4_FallsBackToHeuristic ==
    returned.path # "none" =>
        /\ ~returned.raised
        /\ (UsesHeuristic \/ inference = Raises) =>
              returned.value = MockPredict(features)

\* a loaded model raised on a mapping whose heuristic score is not 0
C4_Witness ==
    /\ model = "keras" /\ model_loaded /\ inference = Raises
    /\ returned.path = "fallback" /\ ~returned.raised
    /\ returned.value = MockPredict(features) /\ returned.value # R(0)

\* C5: a call whose inner join has no rows returns the empty result: no
\* report, no metric keys.
C5_EmptyJoinNoReport ==
    (Returned /\ InnerJoin(args.lsp_scores, args.price_data) = <<>>) =>
        DOMAIN result = {}

\* both frames have rows, none matches, and the call has returned
C5_Witness ==
    /\ Returned /\ args.lsp_scores # <<>> /\ args.price_data # <<>>
    /\ InnerJoin(args.lsp_scores, args.price_data) = <<>>
    /\ result = EmptyResult

\* C6: a configuration with a negative fee, a negative slippage or a
\* non-positive initial capital is rejected before simulation: no trade, no
\* equity entry, no metrics.
C6_InvalidConfigurationRejected ==
    (/\ args # NoArgs
     /\ \/ RLt(trading_fee, R(0))
        \/ RLt(slippage, R(0))
        \/ args.initial_capital <= 0) =>
        /\ trades = <<>>
        /\ equity_curve = <<>>
        /\ ~("total_return" \in DOMAIN result)

\* C7: after any call returns, the trade list and equity curve hold only
\* what that call produced: nothing for an empty join, otherwise a curve
\* seeded with the call's capital with one entry per row, and one trade per
\* open.
C7_ListsRecreatedEachRun ==
    Returned =>
        IF JoinOf(args) = <<>>
        THEN trades = <<>>
             /\ equity_curve \in {<<>>, <<R(args.initial_capital)>>}
        ELSE /\ equity_curve[1] = R(args.initial_capital)
             /\ Len(equity_curve) = Len(JoinOf(args)) + 1
             /\ Len(trades) = opens

\* C8: a call that repeats the arguments of the previous call on the same
\* instance returns the same report and leaves the same trade list and
\* equity curve.
C8_RepeatedRunIdentical ==
    (Returned /\ prev # NoSnapshot /\ prev.args = args) =>
        /\ result = prev.result
        /\ trades = prev.trades
        /\ equity_curve = prev.equity_curve

\* a run with two trades has been repeated
C8_Witness ==
    /\ ReturnedReport /\ prev # NoSnapshot /\ prev.args = args
    /\ Len(trades) = 2 /\ trades = prev.trades

\* C9: the equity curve has one entry per processed row plus the seed, also
\* after the forced close, whose capital is the last entry.
C9_EquityCurveLength ==
    /\ pc = "loop" => Len(equity_curve) = idx + 1
    /\ (Returned /\ JoinOf(args) # <<>>) =>
          /\ Len(equity_curve) = Len(JoinOf(args)) + 1
          /\ opens > 0 => Last(equity_curve) = capital

\* a run of two rows ended with a forced close that changed the last entry
C9_Witness ==
    /\ ReturnedReport /\ Len(JoinOf(args)) = 2 /\ opens > 0
    /\ Len(equity_curve) = 3 /\ Last(equity_curve) = capital
    /\ RLt(capital, equity_curve[2])

ScenarioArgs ==
    [lsp_scores |-> <<[asset |-> "BTC", timestamp |-> 1, lsp_score |-> 8],
                      [asset |-> "BTC", timestamp |-> 2, lsp_score |-> -8]>>,
     price_data |-> <<[asset |-> "BTC", timestamp |-> 1, price |-> 100],
                      [asset |-> "BTC", timestamp |-> 2, price |-> 90]>>,
     initial_capital |-> 100000]
ScenarioShort ==
    [entry_price |-> R(100), exit_price |-> R(90), position |-> "short",
     pnl |-> R(10000), timestamp |-> 2]
ScenarioLong ==
    [entry_price |-> R(90), exit_price |-> R(90), position |-> "long",
     pnl |-> R(0), timestamp |-> 2]

\* C10: with no fee and no slippage, capital 100000 and rows (8, 100),
\* (-8, 90): row 1 opens Short at 100, row 2 closes it with pnl 10000 and
\* opens Long at 90, the forced close has pnl 0; two trades, final capital
\* 110000, total_return 1/10.
C10_Scenario ==
    (args = ScenarioArgs /\ trading_fee = R(0) /\ slippage = R(0)) =>
        /\ (pc = "loop" /\ idx = 1) =>
              position = -1 /\ entry_price = R(100) /\ trades = <<>>
        /\ (pc = "loop" /\ idx = 2) =>
              /\ position = 1 /\ entry_price = R(90)
              /\ trades = <<ScenarioShort>> /\ capital = R(110000)
        /\ pc = "idle" =>
              /\ trades = <<ScenarioShort, ScenarioLong>>
              /\ capital = R(110000)
              /\ result.total_return = Frac(1, 10)
              /\ result.total_trades = 2

\* the scenario has run to its report
C10_Witness ==
    /\ args = ScenarioArgs /\ trading_fee = R(0) /\ slippage = R(0)
    /\ ReturnedReport /\ Len(trades) = 2

NoSignal(row) == row.lsp_score < 7 /\ row.lsp_score > -7
AllEqual(curve, c) == \A i \in 1..Len(curve) : curve[i] = c

\* C11: a run over rows none of which reaches +-7 records no trade, charges
\* no fee or slippage, keeps every equity entry at the initial capital and
\* reports win_rate, avg_profit_per_trade, total_trades and total_return 0.
C11_NoSignalNoTrades ==
    /\ (pc = "loop" /\ \A i \in 1..idx : NoSignal(merged[i])) =>
          /\ trades = <<>> /\ opens = 0 /\ position = 0
          /\ capital = initial_capital
          /\ AllEqual(equity_curve, initial_capital)
    /\ (ReturnedReport
        /\ \A i \in 1..Len(JoinOf(args)) : NoSignal(JoinOf(args)[i])) =>
          /\ trades = <<>>
          /\ Len(equity_curve) = Len(JoinOf(args)) + 1
          /\ AllEqual(equity_curve, R(args.initial_capital))
          /\ result.win_rate = R(0)
          /\ result.avg_profit_per_trade = R(0)
          /\ result.total_trades = 0
          /\ result.total_return = R(0)

\* a single row of score 0 has been run at a non-zero fee and slippage
C11_Witness ==
    /\ ReturnedReport /\ Len(JoinOf(args)) = 1
    /\ JoinOf(args)[1].lsp_score = 0
    /\ trading_fee = Half /\ slippage = Half
    /\ result.total_trades = 0 /\ equity_curve[2] = R(args.initial_capital)

\* the row just processed opened the position now held
OpenedOnRow ==
    pc = "loop" /\ idx >= 1 /\ position # 0
    /\ entry_timestamp = merged[idx].timestamp

\* C12: with slippage >= 0 an entry price is never more favourable than the
\* row's price (Long entry >= price, Short entry <= price), so the equity
\* marked on the opening row does not exceed the capital after the fee.
C12_SlippageAgainstTrader ==
    (/\ OpenedOnRow /\ RLe(R(0), slippage)
     /\ RLe(R(0), trading_fee) /\ RLt(R(0), initial_capital)) =>
        /\ position = 1 => RLe(R(merged[idx].price), entry_price)
        /\ position = -1 => RLe(entry_price, R(merged[idx].price))
        /\ RLe(Last(equity_curve), capital)

ValidConfiguration ==
    /\ args # NoArgs /\ args.initial_capital > 0
    /\ RLe(R(0), trading_fee) /\ RLe(R(0), slippage)
    /\ \A i \in 1..Len(args.price_data) : args.price_data[i].price > 0

\* C13: with positive prices and capital and non-negative fee and slippage
\* no division has a zero divisor and no undefined value reaches the equity
\* curve, the trades, the capital or the report.
C13_ArithmeticDefined ==
    ValidConfiguration =>
        /\ pc = "loop" =>
              /\ initial_capital # R(0)
              /\ position # 0 => entry_price # R(0)
              /\ Defined(capital)
              /\ \A i \in 1..Len(equity_curve) : Defined(equity_curve[i])
              /\ \A i \in 1..Len(trades) : Defined(trades[i].pnl)
        /\ ReturnedReport =>
              /\ Defined(result.total_return)
              /\ Defined(result.avg_profit_per_trade)

\* C14: a run that a thread repeats on its own instance while the other
\* thread runs on another instance, under any interleaving of their steps,
\* gives the report, trade list and equity curve of the run before it.
C14_ParallelInstancesIndependent ==
    (Returned /\ prev # NoSnapshot /\ prev.args = args) =>
        /\ result = prev.result
        /\ trades = prev.trades
        /\ equity_curve = prev.equity_curve

\* a repeated run was switched out midway while the other thread, itself
\* midway through a run with a trade recorded, ran rows of its own
C14_Witness ==
    /\ Returned /\ prev # NoSnapshot /\ prev.args = args /\ preempted
    /\ Len(trades) = 2
    /\ parked.pc = "loop" /\ parked.preempted /\ parked.idx = 2
    /\ Len(parked.trades) = 1 /\ parked.args # args

\* C15: the model handle is read-only once the service is built: no
\* predict_lsp call, whatever path it takes, changes model or model_loaded,
\* and a service in heuristic mode answers every later call from the
\* heuristic, also after a model file has been written (no reload).
C15_HandleReadOnly ==
    [][/\ model' = model
       /\ model_loaded' = model_loaded
       /\ (UsesHeuristic /\ returned' # returned
              => returned'.path = "heuristic" /\ ~returned'.raised)]_vars
\* a service whose load failed has answered from the heuristic and still
\* holds no model although TensorFlow and a valid file are now there
C15_Witness ==
    /\ TENSORFLOW_AVAILABLE /\ model_file = "valid"
    /\ model = "None" /\ ~model_loaded
    /\ returned.path = "heuristic"

\* C16: over any sequence of /current requests and calculate_and_store_score
\* calls in one process the model load routine runs at most once.
C16_LoadedAtMostOnce == loads <= 1

HeuristicCalled == returned.path = "heuristic"
Baselines ==
    [k \in FeatureNames |->
        CASE k = "whale_net_flow_momentum" -> R(0)
          [] k = "sopr" -> R(1)
          [] k = "stablecoin_ratio" -> Frac(1, 2)
          [] k = "illiquid_supply_change" -> R(0)
          [] k = "dex_liquidity_depth" -> R(1000000)
          [] k = "price_volatility" -> Frac(1, 50)]
Completed(f) ==
    [k \in DOMAIN f \cup FeatureNames |->
        IF k \in DOMAIN f THEN f[k] ELSE Baselines[k]]
WithoutOtherKeys(f) == [k \in DOMAIN f \cap FeatureNames |-> f[k]]

\* C17: the heuristic score of a mapping is the score of the mapping with
\* its absent keys filled in by the baselines (0, 1.0, 0.5, 0, 1000000,
\* 0.02), a key outside the six does not change the score, and the empty
\* mapping scores exactly 3.25.
C17_MissingKeysTakeBaselines ==
    HeuristicCalled =>
        /\ returned.value = MockPredict(Completed(features))
        /\ returned.value = MockPredict(WithoutOtherKeys(features))
        /\ (DOMAIN features = {} => returned.value = Frac(13, 4))
        /\ (DOMAIN features = {OtherKey} => returned.value = Frac(13, 4))
\* a partial mapping carrying a key outside the six has been scored
C17_Witness ==
    /\ HeuristicCalled
    /\ OtherKey \in DOMAIN features
    /\ "whale_net_flow_momentum" \in DOMAIN features
    /\ "sopr" \notin DOMAIN features
    /\ "dex_liquidity_depth" \notin DOMAIN features

\* the contribution of SOPR as the tiers are described
SoprContribution(sopr) ==
    IF sopr = Frac(11, 10) THEN Frac(3, 20)
    ELSE IF sopr = Frac(9, 10) THEN Frac(-3, 20)
    ELSE IF RLt(Frac(11, 10), sopr) THEN RMul(RSub(sopr, R(1)), R(3))
    ELSE IF RLt(sopr, Frac(9, 10)) THEN RNeg(RMul(RSub(R(1), sopr), R(2)))
    ELSE RMul(RSub(sopr, R(1)), Frac(3, 2))

\* C18: the SOPR tier boundaries are strict: with every other feature at
\* its baseline (score 3.25 without SOPR), sopr = 1.1 and sopr = 0.9 add
\* 0.15 and -0.15 (neutral branch), only sopr > 1.1 adds (sopr - 1) * 3 and
\* only sopr < 0.9 adds -(1 - sopr) * 2.
C18_SoprBoundariesStrict ==
    HeuristicCalled /\ DOMAIN WithoutOtherKeys(features) = {"sopr"} =>
        returned.value = RAdd(Frac(13, 4), SoprContribution(features["sopr"]))
\* sopr = 1.1 alone has been scored 3.25 + 0.15
C18_Witness ==
    /\ HeuristicCalled
    /\ DOMAIN features = {"sopr"}
    /\ features["sopr"] = Frac(11, 10)
    /\ returned.value = Frac(17, 5)

\* an output the tanh layer can produce
InTanhRange(x) == RLe(R(-1), x) /\ RLe(x, R(1))

\* C20: a model-backed score is the network output scaled back by 10 and
\* then clamped to [-10, 10], the scale of the heuristic.
C20_ModelScoreScaledBack ==
    returned.path = "model" /\ InTanhRange(inference) =>
        returned.value = Clip(RMul(inference, R(10)))

\* the largest fractional decline from the running maximum, as a formula
Peak(curve, t) ==
    CHOOSE p \in {curve[i] : i \in 1..t} : \A i \in 1..t : RLe(curve[i], p)
Decline(curve, t) ==
    RDiv(RSub(curve[t], Peak(curve, t)), Peak(curve, t))
LargestDecline(curve) ==
    RAbs(CHOOSE d \in {Decline(curve, t) : t \in 1..Len(curve)} :
            \A t \in 1..Len(curve) : RLe(d, Decline(curve, t)))
NonDecreasing(curve) ==
    \A i \in 1..Len(curve) - 1 : RLe(curve[i], curve[i + 1])
MetricsComputed == "max_drawdown" \in DOMAIN result

\* C21: max_drawdown is |min over t of (equity[t] - running_max[t]) /
\* running_max[t]|: 0 for every non-decreasing equity curve and 0.25 for
\* the equity curve [100, 120, 90, 150].
C21_MaxDrawdown ==
    MetricsComputed =>
        /\ result.max_drawdown = LargestDecline(equity_curve)
        /\ (NonDecreasing(equity_curve) => result.max_drawdown = R(0))
        /\ (equity_curve = <<R(100), R(120), R(90), R(150)>>
               => result.max_drawdown = Frac(1, 4))
\* the metrics of the curve [100, 120, 90, 150] have been computed
C21_Witness ==
    /\ MetricsComputed
    /\ equity_curve = <<R(100), R(120), R(90), R(150)>>
    /\ result.max_drawdown = Frac(1, 4)

LatestTimestamp(a) ==
    CHOOSE t \in {r.timestamp : r \in Matched(a)} :
        \A r \in Matched(a) : r.timestamp <= t

\* C22: for series with distinct timestamps the outcome depends on the set
\* of rows present in both series only: a run on the same matched rows,
\* supplied in another order or among other unmatched rows, returns the
\* same report, trade list and equity curve; rows are replayed in ascending
\* timestamp order and the forced close uses the latest-timestamp row.
C22_OrderIndependent ==
    /\ pc = "loop" =>
          /\ \A i, j \in 1..Len(merged) :
                 i < j => merged[i].timestamp < merged[j].timestamp
          /\ {merged[i] : i \in 1..Len(merged)} = Matched(args)
    /\ ReturnedReport /\ trades # <<>> =>
          Last(trades).timestamp = LatestTimestamp(args)
    /\ ReturnedReport /\ prev # NoSnapshot =>
          /\ Matched(prev.args) = Matched(args)
          /\ result = prev.result
          /\ trades = prev.trades
          /\ equity_curve = prev.equity_curve
\* two matched rows supplied latest first, among an unmatched price row,
\* after a run on the same matched rows given otherwise
C22_Witness ==
    /\ ReturnedReport /\ prev # NoSnapshot
    /\ prev.args # args
    /\ Len(args.lsp_scores) = 2
    /\ args.lsp_scores[1].timestamp > args.lsp_scores[2].timestamp
    /\ Len(args.price_data) = 3
    /\ Cardinality(Matched(args)) = 2
    /\ Len(trades) = 2

\* a row on which an open position is replaced by the opposite one
Flips == pc = "loop" /\ idx' = idx + 1 /\ position # 0
         /\ position' = -position
FlipRow == merged[idx + 1]
\* realized PnL of the close, on the capital held before it
FlipPnl ==
    LET price == R(FlipRow.price)
        directional ==
            IF position = 1
            THEN RMul(capital, RDiv(RSub(price, entry_price), entry_price))
            ELSE RMul(capital, RDiv(RSub(entry_price, price), entry_price))
    IN  RSub(directional, RMul(capital, RAdd(slippage, trading_fee)))

\* C23: on a row that flips the position the old position is closed at the
\* row's price with PnL = directional PnL - capital * (slippage + fee) on
\* the pre-close capital, a Trade with the row's price and timestamp as exit
\* is appended, the PnL is added to capital, the opposite position is
\* opened at the slippage-adjusted price, (1 - fee) is applied to the
\* post-close capital, and the row's equity is marked against the new entry.
C23_FlipOrder ==
    [][Flips =>
        LET price == R(FlipRow.price)
            entry == IF position' = -1
                     THEN RMul(price, RAdd(R(1), slippage))
                     ELSE RMul(price, RSub(R(1), slippage))
            after == RMul(RAdd(capital, FlipPnl), RSub(R(1), trading_fee))
            marked == IF position' = 1
                      THEN RAdd(after, RMul(after, RDiv(RSub(price, entry),
                                                        entry)))
                      ELSE RAdd(after, RMul(after, RDiv(RSub(entry, price),
                                                        entry)))
        IN  /\ trades' = Append(trades,
                  [entry_price |-> entry_price, exit_price |-> price,
                   position |-> IF position = 1 THEN "long" ELSE "short",
                   pnl |-> FlipPnl, timestamp |-> FlipRow.timestamp])
            /\ capital' = after
            /\ entry_price' = entry
            /\ entry_timestamp' = FlipRow.timestamp
            /\ equity_curve' = Append(equity_curve, marked)]_vars
\* the second row has flipped a position under fee and slippage of one half
C23_Witness ==
    /\ pc = "loop" /\ idx = 2
    /\ Len(trades) = 1 /\ position # 0
    /\ trading_fee = Half /\ slippage = Half
    /\ initial_capital = R(100000)

Alternating(ts) ==
    \A i \in 1..Len(ts) - 1 :
        /\ ts[i].position # ts[i + 1].position
        /\ ts[i].timestamp <= ts[i + 1].timestamp

\* C24: within one run, once a position has been opened the simulator is
\* never Flat again before the end of the series: a mid-run close opens the
\* opposite position in the same row, consecutive Trade records alternate
\* in direction and their exit timestamps do not decrease.
C24_NeverFlatAgain ==
    [][/\ (pc = "loop" /\ opens > 0 => position # 0)
       /\ (pc = "loop" /\ pc' = "loop" /\ trades' # trades
             => position # 0 /\ position' = -position)
       /\ Alternating(trades')]_vars
\* a run has closed a position mid-run and another at the end
C24_Witness ==
    /\ ReturnedReport
    /\ Len(trades) = 2
    /\ trades[1].position = "short" /\ trades[2].position = "long"

\* C25: at the end of every run that returns a report the final capital
\* used for total_return is the last entry of the equity curve, whether
\* the run ended Flat or with a forced close.
C25_FinalCapitalIsLastEquity ==
    ReturnedReport =>
        /\ capital = Last(equity_curve)
        /\ result.total_return =
               RDiv(RSub(Last(equity_curve), initial_capital),
                    initial_capital)
\* a run under fee and slippage has ended with a forced close
C25_Witness ==
    /\ ReturnedReport
    /\ trades # <<>>
    /\ trading_fee = Half /\ slippage = Half
    /\ Len(equity_curve) = 3

\* C26: when two run_backtest executions are interleaved on one
\* LSPBacktester, the report of each execution is computed from the trades
\* and equity entries that execution produced: total_trades is the number
\* of positions it opened (each closed once) and max_drawdown is that of
\* one equity entry per replayed row after the initial capital.
C26_ReportFromOwnRun ==
    ReturnedReport =>
        /\ result.total_trades = opens
        /\ Len(equity_curve) = Len(JoinOf(args)) + 1
        /\ result.max_drawdown = LargestDecline(equity_curve)

\* a step of consume that hands messages over or changes a queue
ConsumeStep ==
    /\ published' = published
    /\ delivered' # delivered \/ memory_queue' # memory_queue

\* C27: in memory mode consume(topic, callback) invokes the callback once
\* for each message published to the topic since its previous consume, in
\* publication order, and leaves the topic's queue empty; other topics are
\* neither delivered nor removed.
C27_ConsumeDeliversOnce ==
    [][ConsumeStep =>
        \E t \in DOMAIN memory_queue :
            /\ delivered' = delivered \o memory_queue[t]
            /\ memory_queue' = [memory_queue EXCEPT ![t] = <<>>]]_vars

\* C28: in every state reachable through connect, disconnect,
\* send_personal_message, broadcast_to_room and the websocket endpoint,
\* each member of a room is a member of active_connections.
C28_RoomMembersActive ==
    \A room \in DOMAIN rooms : rooms[room] \subseteq active_connections

\* C29: broadcast_to_room completes without raising under every
\* interleaving with connect and disconnect calls for its room made while
\* it is suspended at a send (its iteration over the room is not
\* disturbed), and when it returns every member whose send failed has left
\* the room and active_connections.
C29_BroadcastCompletes ==
    [][/\ broadcast'.outcome # "raised"
       /\ (broadcast.pc = "send" /\ broadcast'.outcome = "returned"
             => /\ rooms'[broadcast.room] \cap broadcast'.disconnected = {}
                /\ active_connections' \cap broadcast'.disconnected = {})
      ]_vars
\* a step in which loop l tests its while condition
LoopChecks(l) ==
    /\ loop_pc[l] \in {"created", "sleep", "handler"}
    /\ loop_pc'[l] # loop_pc[l]
    /\ start_pc' = start_pc

====
